---- MODULE Spec2Model ----
(***************************************************************************)
(* Model of the AI flashcard generation pipeline of 10x-cards:             *)
(*   - OpenRouterService (sendMessage, _request and its retry loop),       *)
(*   - the POST /api/decks/:deckId/generate handler with                   *)
(*     AIGenerationService and checkGenerationRateLimit.                   *)
(* Times are in milliseconds.                                              *)
(***************************************************************************)
EXTENDS Integers, Sequences, FiniteSets, TLC

(***************************************************************************)
(* Bounds of the model                                                     *)
(***************************************************************************)
\* largest retry.attempts an OpenRouterService instance is constructed with
MaxAttempts == 3
\* most edits made to one suggestion of the review step
MaxEdits == 3
\* largest attempt number _calculateBackoff is called with on its own
MaxBackoffAttempt == 6
\* most sendMessage calls with a schema made on one instance
MaxCalls == 3

(***************************************************************************)
(* Program constants                                                       *)
(***************************************************************************)
DefaultFactor == 2
DefaultMinTimeoutMs == 1000
MaxBackoffMs == 30000
ApiKeyTtlMs == 300000

\* Math.random() in thousandths: the two ends of [0, 1)
RandomValues == {0, 999}
\* how late a timer may fire after its delay has elapsed
Overshoots == {0, 3}
\* time one fetch takes until its response or its failure
FetchLatencyMs == 25

\* a header that the response does not carry (headers.get gives null)
NoHeader == [present |-> FALSE, s |-> <<>>]

(***************************************************************************)
(* The provider: what one fetch can produce                                *)
(***************************************************************************)
\* a Retry-After header value is a string of characters; "x" stands for any
\* character that is not a decimal digit
RetryAfterValues == {<<>>, <<"2">>, <<"x">>}
RetryAfterHeaders == {NoHeader} \cup {[present |-> TRUE, s |-> v] : v \in RetryAfterValues}

\* parsed JSON values a model reply can encode
JNull == [t |-> "null"]
JObject(fc, n, extra) == [t |-> "object", fc |-> fc, n |-> n, extra |-> extra]
JsonValues == {JNull, JObject("absent", 0, FALSE), JObject("array", 2, FALSE)}

\* message.content of the first choice: JSON text of a value, or plain text
Contents == {[json |-> FALSE, value |-> JNull]} \cup {[json |-> TRUE, value |-> v] : v \in JsonValues}

\* body of a 2xx response: not JSON at all, or a completion with 0 or 1 choices
OkBodies == {[parses |-> FALSE, choices |-> <<>>, usage |-> 0]}
              \cup {[parses |-> TRUE, choices |-> <<>>, usage |-> 0]}
              \cup {[parses |-> TRUE, choices |-> <<c>>, usage |-> 7] : c \in Contents}

ErrorStatuses == {401, 429, 500}
NetworkErrorNames == {"TypeError", "TimeoutError"}

EmptyBody == [parses |-> TRUE, choices |-> <<>>, usage |-> 0]
HttpResponse(status, retryAfter, body) == [kind |-> "http", status |-> status, retryAfter |-> retryAfter, body |-> body, name |-> ""]
\* fetch rejects: no response at all
NetworkFailure(name) == [kind |-> "neterr", status |-> 0, retryAfter |-> NoHeader, body |-> EmptyBody, name |-> name]

ProviderResponses ==
    {HttpResponse(200, NoHeader, b) : b \in OkBodies}
      \cup {HttpResponse(s, NoHeader, EmptyBody) : s \in ErrorStatuses}
      \cup {HttpResponse(429, h, EmptyBody) : h \in RetryAfterHeaders}
      \cup {NetworkFailure(n) : n \in NetworkErrorNames}


(***************************************************************************)
(* State                                                                   *)
(***************************************************************************)
VARIABLES
    retryConfig,    \* OpenRouterService._retryConfig
    usageMetrics,   \* OpenRouterService._usageMetrics
    apiKeyCache,    \* OpenRouterService._apiKeyCache
    now,            \* Date.now()
    pc,             \* where the sendMessage call in progress stands
    params,         \* the SendMessageParams of the call in progress
    attempt,        \* loop variable of _request
    lastError,      \* local variable of _request
    wakeAt,         \* when the timer of _sleep is due
    httpLog,        \* the fetch calls of the current _request, in order
    sleepLog,       \* the delays handed to _sleep in the current _request
    requestOutcome, \* how the current _request ended
    result          \* what sendMessage gave its caller

clientVars == <<retryConfig, usageMetrics, apiKeyCache, now, pc, params, attempt,
                lastError, wakeAt, httpLog, sleepLog, requestOutcome, result>>

VARIABLES
    env,            \* import.meta.env: USE_MOCK_AI and OPENROUTER_API_KEY
    clock,          \* the time of the server and of the database
    generations,    \* table generations (GenerationAuditRecords), in insertion order
    errorLogs,      \* table generation_error_logs (GenerationErrorRecords)
    inv             \* the generate invocations: request, position and response

pipelineVars == <<env, clock, generations, errorLogs, inv>>

VARIABLES
    rateCheck,      \* the last checkGenerationRateLimit call made on its own: arguments and result
    flashcards,     \* table flashcards, in insertion order
    accepts,        \* the accept calls made so far, in order: request, steps taken and response
    dialogSuggestions, \* AIGenerationDialog: the state `suggestions` of the review step
    lastBackoff,    \* the last _calculateBackoff call made on its own: arguments and result
    schemaValidators, \* OpenRouterService._schemaValidators
    lastValidation  \* the last sendMessage call that asked for a schema: schema, reply and verdict

workflowVars == <<rateCheck, flashcards, accepts, dialogSuggestions, lastBackoff, schemaValidators, lastValidation>>

vars == <<clientVars, pipelineVars, workflowVars>>

(***************************************************************************)
(* Errors and numbers                                                      *)
(***************************************************************************)
Error(name, status, message, att) == [name |-> name, status |-> status, message |-> message, attempt |-> att]
NoError == Error("", 0, "", 0)

\* a JavaScript number that may be NaN
Num(n) == [nan |-> FALSE, n |-> n]
NaN == [nan |-> TRUE, n |-> 0]

Digits == {"0", "1", "2", "3", "4", "5", "6", "7", "8", "9"}
DigitValue(c) ==
    CASE c = "0" -> 0 [] c = "1" -> 1 [] c = "2" -> 2 [] c = "3" -> 3 [] c = "4" -> 4
      [] c = "5" -> 5 [] c = "6" -> 6 [] c = "7" -> 7 [] c = "8" -> 8 [] OTHER -> 9

RECURSIVE DigitPrefixValue(_, _)
DigitPrefixValue(s, acc) ==
    IF s = <<>> \/ Head(s) \notin Digits THEN acc
    ELSE DigitPrefixValue(Tail(s), 10 * acc + DigitValue(Head(s)))

\* parseInt(s, 10): the leading decimal digits of s, NaN when there are none
ParseInt(s) ==
    IF s = <<>> \/ Head(s) \notin Digits THEN NaN ELSE Num(DigitPrefixValue(s, 0))

RECURSIVE Pow(_, _)
Pow(b, e) == IF e <= 0 THEN 1 ELSE b * Pow(b, e - 1)

Min(a, b) == IF a <= b THEN a ELSE b

\* setTimeout(resolve, ms): NaN and negative delays fire at once
TimerDelay(ms) == IF ms.nan \/ ms.n < 0 THEN 0 ELSE ms.n

(***************************************************************************)
(* OpenRouterService: the retry loop of _request                           *)
(***************************************************************************)
ShouldRetry(status, att, cfg) ==
    IF att >= cfg.attempts THEN FALSE
    ELSE IF status = 429 THEN TRUE
    ELSE IF status # 0 /\ status >= 500 THEN TRUE
    ELSE IF status # 0 /\ status >= 400 /\ status < 500 THEN FALSE
    ELSE TRUE

\* rnd is Math.random() in thousandths; the result is cut to whole milliseconds
CalculateBackoffUncapped(att, rnd, cfg) ==
    LET backoff == cfg.minTimeoutMs * Pow(cfg.factor, att - 1)
        jitter == (backoff * (rnd - 500)) \div 4000
    IN  backoff + jitter
CalculateBackoff(att, rnd, cfg) ==
    LET backoff == cfg.minTimeoutMs * Pow(cfg.factor, att - 1)
        jitter == (backoff * (rnd - 500)) \div 4000
    IN  Min(backoff + jitter, MaxBackoffMs)

\* the `for` condition of _request
LoopContinuesOneMore(att, cfg) == att <= cfg.attempts + 1
LoopContinuesOneLess(att, cfg) == att < cfg.attempts
LoopContinues(att, cfg) == att <= cfg.attempts

\* parseInt(retryAfter, 10) * 1000
RetryAfterMsUnscaled(s) == ParseInt(s)
RetryAfterMs(s) ==
    LET v == ParseInt(s) IN IF v.nan THEN NaN ELSE Num(v.n * 1000)

\* the network-or-timeout test of the catch block
IsNetworkError(err) == err.name \in {"TypeError", "AbortError", "TimeoutError"}

Control(ctl, ms, setsLastError, err, body) ==
    [ctl |-> ctl, ms |-> ms, setsLastError |-> setsLastError, err |-> err, body |-> body]

\* the try block of one iteration: return, sleep and continue, or throw
TryBlock(resp, att, rnd, cfg) ==
    IF resp.kind = "neterr"
    THEN Control("throw", Num(0), FALSE, Error(resp.name, 0, "fetch failed", att), EmptyBody)
    ELSE IF ~(resp.status >= 200 /\ resp.status <= 299)
    THEN LET shouldRetry == ShouldRetry(resp.status, att, cfg)
             retryAfter == resp.retryAfter
             retryAfterMs == RetryAfterMs(retryAfter.s)
         IN  IF resp.status = 429 /\ retryAfter.present /\ retryAfter.s # <<>> /\ shouldRetry
             THEN Control("sleep", retryAfterMs, FALSE, NoError, EmptyBody)
             ELSE IF resp.status >= 500 /\ shouldRetry
             THEN Control("sleep", Num(CalculateBackoff(att, rnd, cfg)), FALSE, NoError, EmptyBody)
             ELSE Control("throw", Num(0), FALSE,
                          Error("OpenRouterAPIError", resp.status, "OpenRouter API error", att), EmptyBody)
    ELSE IF resp.body.parses
    THEN Control("return", Num(0), FALSE, NoError, resp.body)
    ELSE Control("throw", Num(0), FALSE, Error("SyntaxError", 0, "Unexpected token", att), EmptyBody)

\* the catch block of one iteration, entered with the error thrown in the try
CatchBlock(err, att, rnd, cfg) ==
    LET isNetworkError == IsNetworkError(err)
    IN  IF isNetworkError /\ att < cfg.attempts
        THEN Control("sleep", Num(CalculateBackoff(att, rnd, cfg)), TRUE, err, EmptyBody)
        ELSE IF att = cfg.attempts
        THEN Control("break", Num(0), TRUE, err, EmptyBody)
        ELSE Control("next", Num(0), TRUE, err, EmptyBody)

\* one iteration of the loop on the response of its fetch
Iteration(resp, att, rnd, cfg) ==
    LET t == TryBlock(resp, att, rnd, cfg)
    IN  IF t.ctl = "throw" THEN CatchBlock(t.err, att, rnd, cfg) ELSE t

\* what _request throws once the loop is over
ExhaustedError(err) ==
    IF err # NoError THEN err ELSE Error("Error", 0, "Request failed after all retry attempts", 0)


(***************************************************************************)
(* OpenRouterService: sendMessage around _request                          *)
(***************************************************************************)
NoData == [kind |-> "none", value |-> JNull]

\* a ServiceResponse handed to the caller; thrown marks an exception that
\* leaves sendMessage instead
ServiceResponse(success, code, message, data) ==
    [thrown |-> FALSE, success |-> success, code |-> code, message |-> message, data |-> data]
Thrown(err) ==
    [thrown |-> TRUE, success |-> FALSE, code |-> "", message |-> err.message, data |-> NoData]
NoResult == [thrown |-> FALSE, success |-> FALSE, code |-> "", message |-> "", data |-> NoData]

HandleOpenRouterError(err) == ServiceResponse(FALSE, "unknown_error", err.message, NoData)

Formatted(ok, data, err) == [ok |-> ok, data |-> data, err |-> err]

FormatResponseForClient(body, responseFormat) ==
    IF body.choices = <<>>
    THEN Formatted(FALSE, NoData, Error("Error", 0, "No choices in OpenRouter response", 0))
    ELSE LET content == body.choices[1]
         IN  IF responseFormat
             THEN IF content.json
                  THEN Formatted(TRUE, [kind |-> "json", value |-> content.value], NoError)
                  ELSE Formatted(FALSE, NoData, Error("Error", 0, "Failed to parse JSON response from model", 0))
             ELSE Formatted(TRUE, [kind |-> "text", value |-> content.value], NoError)

\* the schema AIGenerationService asks for: an object whose only property is
\* a flashcards array
MatchesSchema(value) ==
    value.t = "object" /\ value.fc = "array" /\ ~value.extra

ValidateResponseFormat(data) ==
    IF MatchesSchema(data.value)
    THEN Formatted(TRUE, data, NoError)
    ELSE Formatted(FALSE, NoData, Error("Error", 0, "Model response does not match schema: flashcards", 0))

RequestReturned(body) == [kind |-> "return", body |-> body, err |-> NoError]
RequestThrew(err) == [kind |-> "throw", body |-> EmptyBody, err |-> err]
NoOutcome == [kind |-> "none", body |-> EmptyBody, err |-> NoError]

Counted(res, metrics) == [result |-> res, usageMetrics |-> metrics]

\* the catch clause of sendMessage
SendMessageCatchRethrows(err, metrics) ==
    Counted(Thrown(err), [metrics EXCEPT !.failedRequests = @ + 1])
SendMessageCatch(err, metrics) ==
    Counted(HandleOpenRouterError(err), [metrics EXCEPT !.failedRequests = @ + 1])

\* sendMessage from the point where _request has settled
SendMessageTail(outcome, p, metrics) ==
    IF outcome.kind = "throw" THEN SendMessageCatch(outcome.err, metrics)
    ELSE LET f == FormatResponseForClient(outcome.body, p.responseFormat)
             v == IF f.ok /\ p.responseFormat THEN ValidateResponseFormat(f.data) ELSE f
         IN  IF ~v.ok THEN SendMessageCatch(v.err, metrics)
             ELSE Counted(ServiceResponse(TRUE, "", "", v.data),
                          [metrics EXCEPT !.successfulRequests = @ + 1,
                                          !.totalTokens = @ + outcome.body.usage])

\* _resolveApiKey: the cached key while it is fresh, else the provider's
ResolveApiKey(cache, providerKey, t) ==
    IF cache.key # "" /\ cache.expiresAt > t
    THEN [ok |-> TRUE, key |-> cache.key, cache |-> cache]
    ELSE IF providerKey = ""
    THEN [ok |-> FALSE, key |-> "", cache |-> cache]
    ELSE [ok |-> TRUE, key |-> providerKey, cache |-> [key |-> providerKey, expiresAt |-> t + ApiKeyTtlMs]]

ApiKeys == {"", "sk-key"}
SendParams == [hasMessage : BOOLEAN, responseFormat : BOOLEAN]
RetryConfigs == [attempts : 0..MaxAttempts, factor : {DefaultFactor}, minTimeoutMs : {DefaultMinTimeoutMs}]

ClientConstructed(configs) ==
    /\ retryConfig \in configs
    /\ usageMetrics = [totalRequests |-> 0, successfulRequests |-> 0, failedRequests |-> 0, totalTokens |-> 0]
    /\ apiKeyCache = [key |-> "", expiresAt |-> 0]
    /\ now = 0
    /\ pc = "idle"
    /\ params = [hasMessage |-> FALSE, responseFormat |-> FALSE]
    /\ attempt = 0
    /\ lastError = NoError
    /\ wakeAt = 0
    /\ httpLog = <<>>
    /\ sleepLog = <<>>
    /\ requestOutcome = NoOutcome
    /\ result = NoResult

\* _request has settled: sendMessage runs to its end and answers the caller
Settle(outcome, p, metrics) ==
    LET c == SendMessageTail(outcome, p, metrics)
    IN  /\ requestOutcome' = outcome
        /\ result' = c.result
        /\ usageMetrics' = c.usageMetrics
        /\ pc' = "done"

\* the first sendMessage call on the instance, up to the first fetch of _request
SendMessage(p, providerKey) ==
    /\ pc = "idle"
    /\ params' = p
    /\ httpLog' = <<>>
    /\ sleepLog' = <<>>
    /\ lastError' = NoError
    /\ wakeAt' = now
    /\ UNCHANGED <<retryConfig, now>>
    /\ UNCHANGED <<pipelineVars, workflowVars>>
    /\ LET counted == [usageMetrics EXCEPT !.totalRequests = @ + 1]
           k == ResolveApiKey(apiKeyCache, providerKey, now)
       IN  IF ~p.hasMessage
           THEN /\ result' = ServiceResponse(FALSE, "bad_request", "Either userMessage or conversation must be provided", NoData)
                /\ usageMetrics' = counted
                /\ requestOutcome' = NoOutcome
                /\ pc' = "done"
                /\ attempt' = 0
                /\ UNCHANGED apiKeyCache
           ELSE IF ~k.ok
           THEN /\ Settle(RequestThrew(Error("Error", 0, "API key provider returned empty key", 0)), p, counted)
                /\ attempt' = 0
                /\ UNCHANGED apiKeyCache
           ELSE /\ apiKeyCache' = k.cache
                /\ attempt' = 1
                /\ IF LoopContinues(1, retryConfig)
                   THEN /\ pc' = "fetch"
                        /\ usageMetrics' = counted
                        /\ requestOutcome' = NoOutcome
                        /\ result' = NoResult
                   ELSE Settle(RequestThrew(ExhaustedError(NoError)), p, counted)

\* the loop moves on to its next iteration, or ends and throws
Advance(err) ==
    /\ attempt' = attempt + 1
    /\ IF LoopContinues(attempt + 1, retryConfig)
       THEN /\ pc' = "fetch"
            /\ UNCHANGED <<requestOutcome, result, usageMetrics>>
       ELSE Settle(RequestThrew(ExhaustedError(err)), params, usageMetrics)

\* one iteration of the loop: the fetch and what the code does with its outcome
Fetch(resp, rnd) ==
    /\ pc = "fetch"
    /\ LET it == Iteration(resp, attempt, rnd, retryConfig)
           err == IF it.setsLastError THEN it.err ELSE lastError
       IN  /\ now' = now + FetchLatencyMs
           /\ httpLog' = Append(httpLog, [at |-> now, respAt |-> now + FetchLatencyMs, resp |-> resp, attempt |-> attempt])
           /\ lastError' = err
           /\ CASE it.ctl = "return" ->
                     /\ Settle(RequestReturned(it.body), params, usageMetrics)
                     /\ UNCHANGED <<attempt, wakeAt, sleepLog>>
                [] it.ctl = "sleep" ->
                     /\ pc' = "sleep"
                     /\ wakeAt' = now + FetchLatencyMs + TimerDelay(it.ms)
                     /\ sleepLog' = Append(sleepLog, [attempt |-> attempt, ms |-> it.ms, rnd |-> rnd])
                     /\ UNCHANGED <<attempt, requestOutcome, result, usageMetrics>>
                [] it.ctl = "break" ->
                     /\ Settle(RequestThrew(ExhaustedError(err)), params, usageMetrics)
                     /\ UNCHANGED <<attempt, wakeAt, sleepLog>>
                [] OTHER ->
                     /\ Advance(err)
                     /\ UNCHANGED <<wakeAt, sleepLog>>
    /\ UNCHANGED <<retryConfig, apiKeyCache, params>>
    /\ UNCHANGED <<pipelineVars, workflowVars>>

\* the timer of _sleep fires and the loop continues
Wake(late) ==
    /\ pc = "sleep"
    /\ now' = wakeAt + late
    /\ Advance(lastError)
    /\ UNCHANGED <<retryConfig, apiKeyCache, params, lastError, wakeAt, httpLog, sleepLog>>
    /\ UNCHANGED <<pipelineVars, workflowVars>>


(***************************************************************************)
(* The generate endpoint: requests, gates and the generation service       *)
(***************************************************************************)
\* generateFlashcardsSchema
MinSourceTextLength == 1000
MaxSourceTextLength == 10000
MinCount == 5
MaxCount == 20
DefaultCount == 10
DefaultModel == "arcee-ai/trinity-large-preview:free"
AllowedModels == {"openai/gpt-4o-mini", "deepseek/deepseek-chat-v3-0324", "openai/gpt-4o",
                  "anthropic/claude-3.5-sonnet", "arcee-ai/trinity-large-preview:free",
                  "meta-llama/llama-3.1-8b-instruct:free"}
\* checkGenerationRateLimit
LimitPerHour == 10
WindowMs == 3600000

\* bounds of the pipeline model
MaxInvocations == 2
MaxTicks == 1
\* how far one tick moves the clock: just past the rate-limit window
TickMs == 3600001

Users == {"u1", "u2"}
\* the decks table: d1 and d3 belong to u1, d2 to u2; any other id finds no
\* row; d3 is the deck updated last
DeckOwner == [d \in {"d1", "d2", "d3"} |-> IF d = "d2" THEN "u2" ELSE "u1"]
DeckUpdatedAt == [d \in {"d1", "d2", "d3"} |-> IF d = "d1" THEN 1 ELSE IF d = "d2" THEN 2 ELSE 3]
DeckIds == {"d1", "d2", "d9"}

Omitted == [given |-> FALSE, v |-> 0]
Given(v) == [given |-> TRUE, v |-> v]
NoModel == [given |-> FALSE, v |-> ""]
\* a source text: its length and how much of it is leading or trailing whitespace
Text(raw, ws) == [raw |-> raw, ws |-> ws]
Body(text, model, count) == [parses |-> TRUE, text |-> text, model |-> model, count |-> count]
MalformedBody == [parses |-> FALSE, text |-> Text(0, 0), model |-> NoModel, count |-> Omitted]

GoodBody == Body(Text(1000, 0), NoModel, Omitted)
Texts == {Text(999, 0), Text(1000, 0), Text(1002, 3)}
Bodies ==
    {MalformedBody}
      \cup {Body(t, NoModel, Omitted) : t \in Texts}
      \cup {Body(Text(1000, 0), [given |-> TRUE, v |-> "gpt-3"], Omitted)}
      \cup {Body(Text(1000, 0), NoModel, Given(c)) : c \in {4, 5}}

Request(user, deckId, body) == [user |-> user, deckId |-> deckId, body |-> body]
\* u1 sends every body for its own deck; the other requests differ from a
\* good one in the caller or in the deck
Requests ==
    {Request("u1", "d1", b) : b \in Bodies}
      \cup {Request("anon", "d1", GoodBody), Request("u1", "d2", GoodBody), Request("u1", "d9", GoodBody),
            Request("u1", "d9", Body(Text(999, 0), NoModel, Omitted)), Request("u2", "d2", GoodBody)}

\* every kind of body and of caller, for a single invocation
AllTexts == {Text(0, 0), Text(999, 0), Text(1000, 0), Text(1002, 3), Text(10000, 0), Text(10003, 3), Text(10001, 0)}
AllBodies ==
    {MalformedBody}
      \cup {Body(t, m, c) : t \in AllTexts,
                            m \in {NoModel, [given |-> TRUE, v |-> "gpt-3"], [given |-> TRUE, v |-> "openai/gpt-4o"]},
                            c \in {Omitted, Given(4), Given(5), Given(20), Given(21)}}
AllRequests == {Request(u, d, b) : u \in {"u1", "anon"}, d \in DeckIds, b \in AllBodies}

\* z.string().trim(): the text without its surrounding whitespace
TrimmedLength(text) == text.raw - text.ws

\* generateFlashcardsSchema.safeParse
Parsed(success, len, model, count) == [success |-> success, source_text_length |-> len, model |-> model, count |-> count]
SafeParseNoMax(body) ==
    LET len == TrimmedLength(body.text)
        textOk == len >= MinSourceTextLength
        modelOk == ~body.model.given \/ body.model.v \in AllowedModels
        countOk == ~body.count.given \/ (body.count.v >= MinCount /\ body.count.v <= MaxCount)
    IN  IF textOk /\ modelOk /\ countOk
        THEN Parsed(TRUE, len, IF body.model.given THEN body.model.v ELSE DefaultModel,
                    IF body.count.given THEN body.count.v ELSE DefaultCount)
        ELSE Parsed(FALSE, 0, "", 0)
SafeParse(body) ==
    LET len == TrimmedLength(body.text)
        textOk == len >= MinSourceTextLength /\ len <= MaxSourceTextLength
        modelOk == ~body.model.given \/ body.model.v \in AllowedModels
        countOk == ~body.count.given \/ (body.count.v >= MinCount /\ body.count.v <= MaxCount)
    IN  IF textOk /\ modelOk /\ countOk
        THEN Parsed(TRUE, len, IF body.model.given THEN body.model.v ELSE DefaultModel,
                    IF body.count.given THEN body.count.v ELSE DefaultCount)
        ELSE Parsed(FALSE, 0, "", 0)

\* step 4 of the handler: the deck row and its owner
DeckGateAnyOwner(deckId, user) ==
    IF deckId \notin DOMAIN DeckOwner THEN "DECK_NOT_FOUND" ELSE "ok"
DeckGate(deckId, user) ==
    IF deckId \notin DOMAIN DeckOwner THEN "DECK_NOT_FOUND"
    ELSE IF DeckOwner[deckId] # user THEN "FORBIDDEN"
    ELSE "ok"

\* the count query of checkGenerationRateLimit
RecentCountAnyUser(gens, userId, t) ==
    Cardinality({k \in 1..Len(gens) : gens[k].created_at >= t - WindowMs})
RecentCount(gens, userId, t) ==
    Cardinality({k \in 1..Len(gens) : gens[k].user_id = userId /\ gens[k].created_at >= t - WindowMs})

CheckGenerationRateLimitFailClosed(gens, userId, t, queryFails, limitPerHour) ==
    IF queryFails THEN FALSE ELSE RecentCount(gens, userId, t) < limitPerHour
CheckGenerationRateLimitAtCeiling(gens, userId, t, queryFails, limitPerHour) ==
    IF queryFails THEN TRUE ELSE RecentCount(gens, userId, t) <= limitPerHour
CheckGenerationRateLimit(gens, userId, t, queryFails, limitPerHour) ==
    IF queryFails THEN TRUE ELSE RecentCount(gens, userId, t) < limitPerHour

\* one call of checkGenerationRateLimit on its own
CheckRate(userId, ceiling, queryFails) ==
    /\ rateCheck' = [called |-> TRUE, userId |-> userId, ceiling |-> ceiling, queryFails |-> queryFails,
                     result |-> CheckGenerationRateLimit(generations, userId, clock, queryFails, ceiling)]
    /\ UNCHANGED <<flashcards, accepts, dialogSuggestions, lastBackoff, schemaValidators, lastValidation>>
    /\ UNCHANGED <<clientVars, pipelineVars>>

(***************************************************************************)
(* AIGenerationService                                                     *)
(***************************************************************************)
\* what generateFlashcards gives: suggestions, or an AIGenerationError
Generated(n) == [ok |-> TRUE, suggestions |-> n, errorCode |-> "", message |-> ""]
AIGenerationError(message, errorCode) == [ok |-> FALSE, suggestions |-> 0, errorCode |-> errorCode, message |-> message]

\* callOpenRouter from the ServiceResponse of sendMessage on
CallOpenRouter(res) ==
    IF ~res.success
    THEN AIGenerationError(IF res.message # "" THEN res.message ELSE "AI generation failed",
                           IF res.code # "" THEN res.code ELSE "AI_ERROR")
    ELSE IF res.data.kind # "json" \/ res.data.value.t # "object"
    THEN AIGenerationError("Invalid AI response shape", "PARSE_ERROR")
    ELSE IF res.data.value.fc # "array"
    THEN AIGenerationError("Invalid AI response shape: flashcards missing or not array", "PARSE_ERROR")
    ELSE Generated(res.data.value.n)

\* generateMockFlashcards: one suggestion per requested card
GenerateMockFlashcards(count) == Generated(count)

\* the ServiceResponses sendMessage can give callOpenRouter, whose request
\* always carries a user message and the flashcards schema
FlashcardsParams == [hasMessage |-> TRUE, responseFormat |-> TRUE]
SendMessageOn(outcome) ==
    SendMessageTail(outcome, FlashcardsParams,
                    [totalRequests |-> 1, successfulRequests |-> 0, failedRequests |-> 0, totalTokens |-> 0]).result

\* how the _request of that call can end: it throws, or it returns a
\* completion whose content is a flashcards object of ReplySizes cards
ReplySizes == {5}
Completion(content) == RequestReturned([parses |-> TRUE, choices |-> <<content>>, usage |-> 7])
RequestOutcomes ==
    {RequestThrew(Error("OpenRouterAPIError", 500, "OpenRouter API error", 0))}
      \cup {Completion([json |-> TRUE, value |-> JObject("array", n, FALSE)]) : n \in ReplySizes}
\* and every other completion: content that is not JSON, JSON null, an object
\* without flashcards, one with a property the schema does not allow, no choice
BadContents == {[json |-> FALSE, value |-> JNull], [json |-> TRUE, value |-> JNull],
                [json |-> TRUE, value |-> JObject("absent", 0, FALSE)],
                [json |-> TRUE, value |-> JObject("array", 5, TRUE)]}
AllRequestOutcomes ==
    RequestOutcomes \cup {Completion(c) : c \in BadContents} \cup {RequestReturned(EmptyBody)}

GenerateFlashcardsAlwaysMock(useMock, count, res) == GenerateMockFlashcards(count)
GenerateFlashcards(useMock, count, res) ==
    IF useMock THEN GenerateMockFlashcards(count) ELSE CallOpenRouter(res)

(***************************************************************************)
(* POST /api/decks/:deckId/generate                                        *)
(***************************************************************************)
Response(status, code, suggestions, generationId) ==
    [status |-> status, code |-> code, suggestions |-> suggestions, generation_id |-> generationId]
NoResponse == Response(0, "", 0, 0)
NoParsed == Parsed(FALSE, 0, "", 0)
NoAI == [ok |-> FALSE, suggestions |-> 0, errorCode |-> "", message |-> ""]

NoRequest == [user |-> "anon", deckId |-> "d9", body |-> MalformedBody]
\* authCalls, dbCalls and providerCalls count the calls the invocation has made
\* to supabase.auth, to the tables and to the service; queryFailed and
\* recentAtCheck describe its count query; reply is how the _request of its
\* sendMessage call ended
Idle == [pc |-> "idle", req |-> NoRequest, data |-> NoParsed, allowed |-> FALSE, rateLimitOk |-> FALSE, providerCalls |-> 0,
         startedAt |-> 0, ai |-> NoAI, store |-> "none", response |-> NoResponse,
         authCalls |-> 0, dbCalls |-> 0, queryFailed |-> FALSE, recentAtCheck |-> 0,
         reply |-> NoOutcome]

\* steps 1 to 5: what the handler answers before it generates, "" when it goes on
Gates(req, gens, t, queryFails) ==
    IF req.user = "anon" THEN Response(401, "UNAUTHORIZED", 0, 0)
    ELSE IF ~req.body.parses THEN Response(500, "INTERNAL_SERVER_ERROR", 0, 0)
    ELSE IF ~SafeParse(req.body).success THEN Response(400, "VALIDATION_ERROR", 0, 0)
    ELSE IF DeckGate(req.deckId, req.user) = "DECK_NOT_FOUND" THEN Response(404, "DECK_NOT_FOUND", 0, 0)
    ELSE IF DeckGate(req.deckId, req.user) = "FORBIDDEN" THEN Response(403, "FORBIDDEN", 0, 0)
    ELSE IF ~CheckGenerationRateLimit(gens, req.user, t, queryFails, LimitPerHour)
    THEN Response(429, "RATE_LIMIT_EXCEEDED", 0, 0)
    ELSE NoResponse

\* new AIGenerationService(apiKey, useMock) throws without a key in live mode
ServiceConstructed(e) == e.apiKey # "" \/ e.useMockAI

\* steps 1 to 7 up to the point where generateFlashcards awaits its reply
Start(i, req, queryFails) ==
    /\ inv[i].pc = "idle"
    /\ \A j \in 1..(i - 1) : inv[j].pc # "idle"
    /\ LET g == Gates(req, generations, clock, queryFails)
           passed == g = NoResponse
           allowed == /\ req.user # "anon" /\ req.body.parses /\ SafeParse(req.body).success
                      /\ DeckGate(req.deckId, req.user) = "ok"
                      /\ CheckGenerationRateLimit(generations, req.user, clock, queryFails, LimitPerHour)
           validated == req.user # "anon" /\ req.body.parses /\ SafeParse(req.body).success
           counted == validated /\ DeckGate(req.deckId, req.user) = "ok"
           base == [Idle EXCEPT !.req = req, !.startedAt = clock, !.allowed = allowed,
                                !.rateLimitOk = passed,
                                !.data = IF req.body.parses THEN SafeParse(req.body) ELSE NoParsed,
                                !.authCalls = 1,
                                !.dbCalls = (IF validated THEN 1 ELSE 0) + (IF counted THEN 1 ELSE 0),
                                !.queryFailed = counted /\ queryFails,
                                !.recentAtCheck = IF counted THEN RecentCount(generations, req.user, clock) ELSE 0]
       IN  inv' = [inv EXCEPT ![i] =
                IF ~passed THEN [base EXCEPT !.pc = "done", !.response = g]
                ELSE IF ~ServiceConstructed(env)
                THEN [base EXCEPT !.pc = "done", !.response = Response(500, "INTERNAL_SERVER_ERROR", 0, 0)]
                ELSE [base EXCEPT !.pc = "generating", !.providerCalls = 1]]
    /\ UNCHANGED <<env, clock, generations, errorLogs>>
    /\ UNCHANGED <<clientVars, workflowVars>>

AuditRecord(i, r, n, t, duration) ==
    [user_id |-> r.req.user, model |-> r.data.model, source_text_length |-> r.data.source_text_length,
     generated_count |-> n, generation_duration |-> duration, created_at |-> t, inv |-> i]
ErrorRecord(i, user, ai) ==
    [user_id |-> user, model |-> "unknown", error_code |-> IF ai.errorCode # "" THEN ai.errorCode ELSE "UNKNOWN_ERROR",
     error_message |-> ai.message, inv |-> i]

\* what the handler does with the outcome of generateFlashcards: which
\* record it inserts and what it answers
Plan(audit, errlog, response) == [audit |-> audit, errlog |-> errlog, response |-> response]
AfterGenerationLogsBoth(ai, insertOk, userAgain, nextId) ==
    IF ai.ok
    THEN IF insertOk
         THEN Plan(TRUE, FALSE, Response(200, "", ai.suggestions, nextId))
         ELSE Plan(FALSE, FALSE, Response(500, "INTERNAL_SERVER_ERROR", 0, 0))
    ELSE Plan(insertOk, userAgain /\ insertOk, Response(422, "AI_GENERATION_FAILED", 0, 0))
AfterGenerationNoErrorLog(ai, insertOk, userAgain, nextId) ==
    IF ai.ok
    THEN IF insertOk
         THEN Plan(TRUE, FALSE, Response(200, "", ai.suggestions, nextId))
         ELSE Plan(FALSE, FALSE, Response(500, "INTERNAL_SERVER_ERROR", 0, 0))
    ELSE Plan(FALSE, FALSE, Response(422, "AI_GENERATION_FAILED", 0, 0))
AfterGeneration(ai, insertOk, userAgain, nextId) ==
    IF ai.ok
    THEN IF insertOk
         THEN Plan(TRUE, FALSE, Response(200, "", ai.suggestions, nextId))
         ELSE Plan(FALSE, FALSE, Response(500, "INTERNAL_SERVER_ERROR", 0, 0))
    ELSE Plan(FALSE, userAgain /\ insertOk, Response(422, "AI_GENERATION_FAILED", 0, 0))

\* generateFlashcards settles; steps 8 and 9, or the catch clause
Finish(i, outcome, insertOk, userAgain) ==
    /\ inv[i].pc = "generating"
    /\ LET r == inv[i]
           ai == GenerateFlashcards(env.useMockAI, r.data.count, SendMessageOn(outcome))
           inserts == ai.ok \/ userAgain
           plan == AfterGeneration(ai, insertOk, userAgain, Len(generations) + 1)
       IN  /\ generations' = IF plan.audit
                             THEN Append(generations, AuditRecord(i, r, ai.suggestions, clock, clock - r.startedAt))
                             ELSE generations
           /\ errorLogs' = IF plan.errlog THEN Append(errorLogs, ErrorRecord(i, r.req.user, ai)) ELSE errorLogs
           /\ inv' = [inv EXCEPT ![i] = [r EXCEPT !.pc = "done", !.ai = ai,
                                                  !.store = IF inserts
                                                            THEN (IF insertOk THEN "ok" ELSE "failed")
                                                            ELSE "skipped",
                                                  !.authCalls = @ + (IF ai.ok THEN 0 ELSE 1),
                                                  !.dbCalls = @ + (IF inserts THEN 1 ELSE 0),
                                                  !.reply = IF env.useMockAI THEN NoOutcome ELSE outcome,
                                                  !.response = plan.response]]
    /\ UNCHANGED <<env, clock>>
    /\ UNCHANGED <<clientVars, workflowVars>>

\* time passes
Tick ==
    /\ clock < MaxTicks * TickMs
    /\ clock' = clock + TickMs
    /\ UNCHANGED <<env, generations, errorLogs, inv>>
    /\ UNCHANGED <<clientVars, workflowVars>>

\* time passes up to one of the given instants
Elapse(t) ==
    /\ t > clock
    /\ clock' = t
    /\ UNCHANGED <<env, generations, errorLogs, inv>>
    /\ UNCHANGED <<clientVars, workflowVars>>

\* an invocation that begins while no other one is between its check and
\* its insert
StartAlone(i, req) ==
    /\ \A j \in DOMAIN inv : inv[j].pc # "generating"
    /\ Start(i, req, FALSE)

\* audit records that exist before the first invocation of the model
PriorCounts == {9}
PriorRecord == [user_id |-> "u1", model |-> DefaultModel, source_text_length |-> MinSourceTextLength,
                generated_count |-> DefaultCount, generation_duration |-> 0, created_at |-> 0, inv |-> 0]
Environments == {[useMockAI |-> TRUE, apiKey |-> ""], [useMockAI |-> FALSE, apiKey |-> "sk-key"],
                 [useMockAI |-> FALSE, apiKey |-> ""]}

PipelineStarted(envs, priors, n) ==
    /\ env \in envs
    /\ clock = 0
    /\ generations \in {[k \in 1..m |-> PriorRecord] : m \in priors}
    /\ errorLogs = <<>>
    /\ inv = [i \in 1..n |-> Idle]

(***************************************************************************)
(* POST /api/generations/:generationId/accept                              *)
(***************************************************************************)
MinBatch == 1
MaxBatch == 50
MaxFrontLength == 5000
MaxBackLength == 10000
\* bound of the accept model: calls made one after the other
MaxAccepts == 2

\* an item of the request body; front and back are texts as above
Item(front, back, wasEdited) == [front |-> front, back |-> back, was_edited |-> wasEdited]
\* the k-th item of a batch: fronts differ from item to item and carry a
\* blank; the pattern says which items the user has edited
ItemAt(k, pattern) == Item(Text(k + 1, 1), Text(2, 0), pattern = "all" \/ (pattern = "odd" /\ k % 2 = 1))
Batch(n, pattern) == [k \in 1..n |-> ItemAt(k, pattern)]
AcceptBody(items) == [parses |-> TRUE, flashcards |-> items]
MalformedAcceptBody == [parses |-> FALSE, flashcards |-> <<>>]
OneCard == AcceptBody(Batch(MinBatch, "none"))
AcceptBodies ==
    {MalformedAcceptBody, AcceptBody(<<Item(Text(0, 0), Text(2, 0), FALSE)>>)}
      \cup {AcceptBody(Batch(MinBatch, p)) : p \in {"none", "all"}}
      \cup {AcceptBody(Batch(n, "odd")) : n \in {0, 2, MaxBatch, MaxBatch + 1}}

AcceptRequest(user, generationId, deckParam, body) ==
    [user |-> user, generationId |-> generationId, deckParam |-> deckParam, body |-> body]
\* u1 sends every body for its own generation 1 without a deck_id; the
\* other requests differ from a good one in the caller, the generation or
\* the deck_id
AcceptRequests ==
    {AcceptRequest("u1", 1, "", b) : b \in AcceptBodies}
      \cup {AcceptRequest("anon", 1, "", OneCard), AcceptRequest("u1", 2, "", OneCard),
            AcceptRequest("u1", 9, "", OneCard), AcceptRequest("u1", 9, "", AcceptBody(<<>>)),
            AcceptRequest("u1", 9, "", AcceptBody(Batch(MaxBatch + 1, "odd"))),
            AcceptRequest("u1", 1, "d1", OneCard), AcceptRequest("u1", 1, "d2", OneCard),
            AcceptRequest("u1", 1, "d9", OneCard), AcceptRequest("u3", 3, "", OneCard),
            AcceptRequest("u2", 2, "", OneCard)}

\* acceptFlashcardsSchema.safeParse; z.string() does not trim, so a length
\* counts the blanks
AcceptFlashcardsSchemaNoMax(body) ==
    /\ Len(body.flashcards) >= MinBatch
    /\ \A k \in 1..Len(body.flashcards) :
          /\ body.flashcards[k].front.raw >= 1 /\ body.flashcards[k].front.raw <= MaxFrontLength
          /\ body.flashcards[k].back.raw >= 1 /\ body.flashcards[k].back.raw <= MaxBackLength
AcceptFlashcardsSchema(body) ==
    /\ Len(body.flashcards) >= MinBatch /\ Len(body.flashcards) <= MaxBatch
    /\ \A k \in 1..Len(body.flashcards) :
          /\ body.flashcards[k].front.raw >= 1 /\ body.flashcards[k].front.raw <= MaxFrontLength
          /\ body.flashcards[k].back.raw >= 1 /\ body.flashcards[k].back.raw <= MaxBackLength

\* the generation row and its owner; the id of a generation is its place in
\* the table
GenerationGateAnyOwner(gens, generationId, user) ==
    IF generationId \notin 1..Len(gens) THEN "GENERATION_NOT_FOUND" ELSE "ok"
GenerationGate(gens, generationId, user) ==
    IF generationId \notin 1..Len(gens) THEN "GENERATION_NOT_FOUND"
    ELSE IF gens[generationId].user_id # user THEN "FORBIDDEN"
    ELSE "ok"

\* the user's deck that was updated last, "" without any deck
RecentDeck(user) ==
    LET own == {d \in DOMAIN DeckOwner : DeckOwner[d] = user}
    IN  IF own = {} THEN ""
        ELSE CHOOSE d \in own : \A e \in own : DeckUpdatedAt[e] <= DeckUpdatedAt[d]

\* the deck ids the handler can end up with: the deck_id parameter, else the
\* deck of any one flashcard of this generation (limit(1) without an order),
\* else the user's most recent deck
DeckCandidatesRecentFirst(req, cards) ==
    IF req.deckParam # "" THEN {req.deckParam} ELSE {RecentDeck(req.user)}
DeckCandidates(req, cards) ==
    LET existing == {cards[k].deck_id : k \in {j \in 1..Len(cards) : cards[j].generation_id = req.generationId}}
    IN  IF req.deckParam # "" THEN {req.deckParam}
        ELSE IF existing # {} THEN existing
        ELSE {RecentDeck(req.user)}

\* flashcardsToInsert
FlashcardsToInsertAllFull(items, deckId, user, generationId) ==
    [k \in 1..Len(items) |->
        [deck_id |-> deckId, user_id |-> user, generation_id |-> generationId,
         front |-> items[k].front, back |-> items[k].back, source |-> "ai-full"]]
FlashcardsToInsert(items, deckId, user, generationId) ==
    [k \in 1..Len(items) |->
        [deck_id |-> deckId, user_id |-> user, generation_id |-> generationId,
         front |-> items[k].front, back |-> items[k].back,
         source |-> IF items[k].was_edited THEN "ai-edited" ELSE "ai-full"]]

AcceptResponse(status, code, createdCount) == [status |-> status, code |-> code, created_count |-> createdCount]
\* what one call does: its response, the rows it inserts, and how many times
\* it has looked the generation up and sent an insert
Accepted(response, rows, lookups, inserts) ==
    [response |-> response, rows |-> rows, lookups |-> lookups, inserts |-> inserts]

AcceptFlashcards(req, gens, deckId, insertOk) ==
    IF req.user = "anon" THEN Accepted(AcceptResponse(401, "UNAUTHORIZED", 0), <<>>, 0, 0)
    ELSE IF ~req.body.parses THEN Accepted(AcceptResponse(500, "INTERNAL_SERVER_ERROR", 0), <<>>, 0, 0)
    ELSE IF ~AcceptFlashcardsSchema(req.body) THEN Accepted(AcceptResponse(400, "VALIDATION_ERROR", 0), <<>>, 0, 0)
    ELSE IF GenerationGate(gens, req.generationId, req.user) = "GENERATION_NOT_FOUND"
    THEN Accepted(AcceptResponse(404, "GENERATION_NOT_FOUND", 0), <<>>, 1, 0)
    ELSE IF GenerationGate(gens, req.generationId, req.user) = "FORBIDDEN"
    THEN Accepted(AcceptResponse(403, "FORBIDDEN", 0), <<>>, 1, 0)
    ELSE IF deckId = "" THEN Accepted(AcceptResponse(400, "VALIDATION_ERROR", 0), <<>>, 1, 0)
    ELSE IF DeckGate(deckId, req.user) = "DECK_NOT_FOUND"
    THEN Accepted(AcceptResponse(404, "DECK_NOT_FOUND", 0), <<>>, 1, 0)
    ELSE IF DeckGate(deckId, req.user) = "FORBIDDEN" THEN Accepted(AcceptResponse(403, "FORBIDDEN", 0), <<>>, 1, 0)
    ELSE IF ~insertOk THEN Accepted(AcceptResponse(500, "INTERNAL_SERVER_ERROR", 0), <<>>, 1, 1)
    ELSE LET rows == FlashcardsToInsert(req.body.flashcards, deckId, req.user, req.generationId)
         IN  Accepted(AcceptResponse(201, "", Len(rows)), rows, 1, 1)

\* one accept call, from the request to the response
Accept(req, deckId, insertOk) ==
    /\ Len(accepts) < MaxAccepts
    /\ LET a == AcceptFlashcards(req, generations, deckId, insertOk)
       IN  /\ flashcards' = flashcards \o a.rows
           /\ accepts' = Append(accepts, [req |-> req, response |-> a.response, lookups |-> a.lookups,
                                          inserts |-> a.inserts, first |-> Len(flashcards) + 1,
                                          deckId |-> IF a.lookups = 1
                                                        /\ GenerationGate(generations, req.generationId, req.user) = "ok"
                                                     THEN deckId ELSE ""])
    /\ UNCHANGED <<rateCheck, dialogSuggestions, lastBackoff, schemaValidators, lastValidation>>
    /\ UNCHANGED <<clientVars, pipelineVars>>

(***************************************************************************)
(* AIGenerationDialog: the review step                                     *)
(***************************************************************************)
\* what onGenerate resolves with: the suggestions of one generation
GeneratedResults ==
    {<<[front |-> "Q1", back |-> "A1"], [front |-> "Q2", back |-> "A2"]>>,
     <<[front |-> "Q1", back |-> "Q1"]>>}
\* what the user can type into a field of a suggestion
EditValues == {"Q1", "A1", "zz"}

\* handleGenerate, after onGenerate has resolved: the view models; tempId is
\* distinct per index, edits counts the handleEditSuggestion calls on it
HandleGenerate(suggested) ==
    /\ dialogSuggestions' = [k \in 1..Len(suggested) |->
                          [tempId |-> k, front |-> suggested[k].front, back |-> suggested[k].back,
                           isSelected |-> TRUE, isEdited |-> FALSE,
                           originalFront |-> suggested[k].front, originalBack |-> suggested[k].back,
                           edits |-> 0]]
    /\ UNCHANGED <<rateCheck, flashcards, accepts, lastBackoff, schemaValidators, lastValidation>>
    /\ UNCHANGED <<clientVars, pipelineVars>>

\* the assignment to updated.isEdited in handleEditSuggestion
IsEditedFrontOnly(updated, s) == updated.front # s.originalFront
IsEdited(updated, s) == updated.front # s.originalFront \/ updated.back # s.originalBack

HandleEditSuggestion(tempId, field, value) ==
    /\ \E k \in 1..Len(dialogSuggestions) : dialogSuggestions[k].tempId = tempId /\ dialogSuggestions[k].edits < MaxEdits
    /\ dialogSuggestions' = [k \in 1..Len(dialogSuggestions) |->
                          LET s == dialogSuggestions[k]
                              updated == IF field = "front" THEN [s EXCEPT !.front = value]
                                                            ELSE [s EXCEPT !.back = value]
                          IN  IF s.tempId # tempId THEN s
                              ELSE [updated EXCEPT !.isEdited = IsEdited(updated, s), !.edits = @ + 1]]
    /\ UNCHANGED <<rateCheck, flashcards, accepts, lastBackoff, schemaValidators, lastValidation>>
    /\ UNCHANGED <<clientVars, pipelineVars>>

HandleToggleSelection(tempId) ==
    /\ dialogSuggestions' = [k \in 1..Len(dialogSuggestions) |->
                          LET s == dialogSuggestions[k]
                          IN  IF s.tempId = tempId THEN [s EXCEPT !.isSelected = ~s.isSelected] ELSE s]
    /\ UNCHANGED <<rateCheck, flashcards, accepts, lastBackoff, schemaValidators, lastValidation>>
    /\ UNCHANGED <<clientVars, pipelineVars>>

HandleToggleAll ==
    /\ LET allSelected == \A k \in 1..Len(dialogSuggestions) : dialogSuggestions[k].isSelected
       IN  dialogSuggestions' = [k \in 1..Len(dialogSuggestions) |-> [dialogSuggestions[k] EXCEPT !.isSelected = ~allSelected]]
    /\ UNCHANGED <<rateCheck, flashcards, accepts, lastBackoff, schemaValidators, lastValidation>>
    /\ UNCHANGED <<clientVars, pipelineVars>>

\* handleSaveSelected: the AcceptFlashcardItems handed to onAccept
FlashcardsToSave(ss) ==
    LET sel == SelectSeq(ss, LAMBDA s : s.isSelected)
    IN  [k \in 1..Len(sel) |-> [front |-> sel[k].front, back |-> sel[k].back, was_edited |-> sel[k].isEdited]]

(***************************************************************************)
(* OpenRouterService: _calculateBackoff on its own                         *)
(***************************************************************************)
NoBackoff == [called |-> FALSE, attempt |-> 0, rnd |-> 0, ms |-> 0]
BackoffConfigs == [attempts : {MaxBackoffAttempt}, factor : {DefaultFactor, 3}, minTimeoutMs : {500, DefaultMinTimeoutMs}]

\* one call of _calculateBackoff with Math.random() giving rnd thousandths
Backoff(att, rnd) ==
    /\ lastBackoff' = [called |-> TRUE, attempt |-> att, rnd |-> rnd, ms |-> CalculateBackoff(att, rnd, retryConfig)]
    /\ UNCHANGED <<rateCheck, flashcards, accepts, dialogSuggestions, schemaValidators, lastValidation>>
    /\ UNCHANGED <<clientVars, pipelineVars>>

(***************************************************************************)
(* OpenRouterService: sendMessage with a schema, and _schemaValidators     *)
(***************************************************************************)
\* a JSON schema for an object: whether property flashcards must be an
\* array, and whether other properties are allowed
SchemaNames == {"flashcards", "summary"}
Schemas == [name : SchemaNames, flashcardsArray : BOOLEAN, additionalProperties : BOOLEAN]
\* no validator is cached under a name
NotCompiled == [name |-> "", flashcardsArray |-> FALSE, additionalProperties |-> FALSE]
NoValidation == [called |-> FALSE, schema |-> NotCompiled, formatted |-> FALSE, value |-> JNull, ok |-> FALSE]

\* the ValidateFunction ajv compiles from a schema, applied to a value
Validator(schema, value) ==
    /\ value.t = "object"
    /\ schema.flashcardsArray => value.fc = "array"
    /\ ~schema.additionalProperties => ~value.extra

\* _validateResponseFormat: the validator cached under the schema's name, or
\* one compiled from the schema and cached under that name
CachedValidator(cache, schema) ==
    IF cache[schema.name] # NotCompiled THEN cache[schema.name] ELSE schema
ValidateResponseFormatCached(data, schema, cache) ==
    IF Validator(CachedValidator(cache, schema), data.value)
    THEN Formatted(TRUE, data, NoError)
    ELSE Formatted(FALSE, NoData, Error("Error", 0, "Model response does not match schema", 0))

\* a whole sendMessage call that asks for a schema and whose first fetch
\* answers 200 with a completion
SendMessageWithSchema(schema, body) ==
    /\ pc = "idle"
    /\ usageMetrics.totalRequests < MaxCalls
    /\ LoopContinues(1, retryConfig)
    /\ body.parses
    /\ LET counted == [usageMetrics EXCEPT !.totalRequests = @ + 1]
           k == ResolveApiKey(apiKeyCache, "sk-key", now)
           f == FormatResponseForClient(body, TRUE)
           v == IF f.ok THEN ValidateResponseFormatCached(f.data, schema, schemaValidators) ELSE f
           c == IF ~v.ok THEN SendMessageCatch(v.err, counted)
                ELSE Counted(ServiceResponse(TRUE, "", "", v.data),
                             [counted EXCEPT !.successfulRequests = @ + 1, !.totalTokens = @ + body.usage])
       IN  /\ apiKeyCache' = k.cache
           /\ now' = now + FetchLatencyMs
           /\ usageMetrics' = c.usageMetrics
           /\ result' = c.result
           /\ schemaValidators' = IF f.ok
                                  THEN [schemaValidators EXCEPT ![schema.name] = CachedValidator(schemaValidators, schema)]
                                  ELSE schemaValidators
           /\ lastValidation' = [called |-> TRUE, schema |-> schema, formatted |-> f.ok,
                            value |-> IF f.ok THEN f.data.value ELSE JNull,
                            ok |-> c.result.success]
    /\ UNCHANGED <<retryConfig, pc, params, attempt, lastError, wakeAt, httpLog, sleepLog, requestOutcome>>
    /\ UNCHANGED <<rateCheck, flashcards, accepts, dialogSuggestions, lastBackoff>>
    /\ UNCHANGED pipelineVars

\* no rate-limit probe and no accept call has been made
NoRateCheck == [called |-> FALSE, userId |-> "", ceiling |-> 0, queryFails |-> FALSE, result |-> FALSE]
WorkflowIdle ==
    /\ rateCheck = NoRateCheck
    /\ flashcards = <<>>
    /\ accepts = <<>>
    /\ dialogSuggestions = <<>>
    /\ lastBackoff = NoBackoff
    /\ schemaValidators = [n \in SchemaNames |-> NotCompiled]
    /\ lastValidation = NoValidation

(***************************************************************************)
(* Specifications                                                          *)
(***************************************************************************)
\* one sendMessage call on a fresh OpenRouterService
InitClient ==
    /\ ClientConstructed(RetryConfigs)
    /\ PipelineStarted({[useMockAI |-> TRUE, apiKey |-> ""]}, {0}, MaxInvocations)
    /\ WorkflowIdle

NextClient ==
    \/ \E p \in SendParams, k \in ApiKeys : SendMessage(p, k)
    \/ \E resp \in ProviderResponses, rnd \in RandomValues : Fetch(resp, rnd)
    \/ \E late \in Overshoots : Wake(late)

SpecClient == InitClient /\ [][NextClient]_vars

\* concurrent invocations of the generate endpoint while the count query of
\* the rate limiter works
Init ==
    /\ ClientConstructed({[attempts |-> 3, factor |-> DefaultFactor, minTimeoutMs |-> DefaultMinTimeoutMs]})
    /\ PipelineStarted(Environments, PriorCounts, MaxInvocations)
    /\ WorkflowIdle

Next ==
    \/ \E i \in 1..MaxInvocations, req \in Requests : Start(i, req, FALSE)
    \/ \E i \in 1..MaxInvocations, outcome \in RequestOutcomes, insertOk \in BOOLEAN, userAgain \in BOOLEAN :
          Finish(i, outcome, insertOk, userAgain)
    \/ Tick

Spec == Init /\ [][Next]_vars

DefaultClient == ClientConstructed({[attempts |-> 3, factor |-> DefaultFactor, minTimeoutMs |-> DefaultMinTimeoutMs]})

\* one invocation of the generate endpoint with every kind of request, of
\* reply and of store failure; the caller is one record short of the
\* ceiling or at it
InitSingle ==
    /\ DefaultClient
    /\ PipelineStarted(Environments, {LimitPerHour - 1, LimitPerHour}, 1)
    /\ WorkflowIdle

NextSingle ==
    \/ \E req \in AllRequests, queryFails \in BOOLEAN : Start(1, req, queryFails)
    \/ \E outcome \in AllRequestOutcomes, insertOk \in BOOLEAN, userAgain \in BOOLEAN :
          Finish(1, outcome, insertOk, userAgain)
    \/ Tick

SpecSingle == InitSingle /\ [][NextSingle]_vars

\* invocations of one user that run together, on the offline substitute and
\* a store that works
Racers == 4
InitRace ==
    /\ DefaultClient
    /\ PipelineStarted({[useMockAI |-> TRUE, apiKey |-> ""]}, {LimitPerHour - 1}, Racers)
    /\ WorkflowIdle

NextRace ==
    \/ \E i \in 1..Racers : Start(i, Request("u1", "d1", GoodBody), FALSE)
    \/ \E i \in 1..Racers : Finish(i, NoOutcome, TRUE, TRUE)
    \/ Tick

SpecRace == InitRace /\ [][NextRace]_vars

\* invocations of one user that never overlap, while the count query works;
\* the clock moves between the instants around the end of the first window
SequentialTimes == {1, WindowMs - 1, WindowMs, WindowMs + 1}
InitSequential ==
    /\ DefaultClient
    /\ PipelineStarted({[useMockAI |-> TRUE, apiKey |-> ""]}, {LimitPerHour - 1}, MaxInvocations + 1)
    /\ WorkflowIdle

NextSequential ==
    \/ \E i \in DOMAIN inv : StartAlone(i, Request("u1", "d1", GoodBody))
    \/ \E i \in DOMAIN inv, insertOk \in BOOLEAN : Finish(i, NoOutcome, insertOk, TRUE)
    \/ \E t \in SequentialTimes : Elapse(t)

SpecSequential == InitSequential /\ [][NextSequential]_vars

\* checkGenerationRateLimit called on tables that hold, for the user asked
\* about, records older than the window, on its edge and inside it, and
\* records of another user
MaxCeiling == 3
MaxRows == 2
ProbeClock == 2 * WindowMs
Rows(user, t, n) == [k \in 1..n |-> [PriorRecord EXCEPT !.user_id = user, !.created_at = t]]
ProbeTables ==
    {Rows("u1", ProbeClock - WindowMs - 1, old) \o Rows("u2", ProbeClock - 1, other)
       \o Rows("u1", ProbeClock - WindowMs, edge) \o Rows("u1", ProbeClock - 1, fresh) :
          old \in 0..1, other \in {0, MaxCeiling}, edge \in 0..1, fresh \in 0..MaxRows}

InitRateLimit ==
    /\ DefaultClient
    /\ env = [useMockAI |-> TRUE, apiKey |-> ""]
    /\ clock = ProbeClock
    /\ generations \in ProbeTables
    /\ errorLogs = <<>>
    /\ inv = [i \in 1..1 |-> Idle]
    /\ WorkflowIdle

NextRateLimit == \E userId \in Users, ceiling \in 1..MaxCeiling, queryFails \in BOOLEAN : CheckRate(userId, ceiling, queryFails)

SpecRateLimit == InitRateLimit /\ [][NextRateLimit]_vars

\* accept calls, one after the other, on a store that holds one generation
\* each of u1, u2 and u3; u3 has no deck
InitAccept ==
    /\ DefaultClient
    /\ env = [useMockAI |-> TRUE, apiKey |-> ""]
    /\ clock = 0
    /\ generations = Rows("u1", 0, 1) \o Rows("u2", 0, 1) \o Rows("u3", 0, 1)
    /\ errorLogs = <<>>
    /\ inv = [i \in 1..1 |-> Idle]
    /\ WorkflowIdle

NextAccept ==
    \E req \in AcceptRequests, insertOk \in BOOLEAN :
        \E deckId \in DeckCandidates(req, flashcards) : Accept(req, deckId, insertOk)

SpecAccept == InitAccept /\ [][NextAccept]_vars


\* the review step of the dialog: generate, then edit and select
InitUnits ==
    /\ DefaultClient
    /\ env = [useMockAI |-> TRUE, apiKey |-> ""]
    /\ clock = 0
    /\ generations = <<>>
    /\ errorLogs = <<>>
    /\ inv = [i \in 1..1 |-> Idle]
    /\ WorkflowIdle

NextReview ==
    \/ \E suggested \in GeneratedResults : HandleGenerate(suggested)
    \/ \E tempId \in 1..2, field \in {"front", "back"}, value \in EditValues :
          HandleEditSuggestion(tempId, field, value)
    \/ \E tempId \in 1..2 : HandleToggleSelection(tempId)
    \/ HandleToggleAll

SpecReview == InitUnits /\ [][NextReview]_vars

\* _calculateBackoff for every attempt number and jitter, on instances
\* constructed with several retry configurations
InitBackoff ==
    /\ ClientConstructed(BackoffConfigs)
    /\ env = [useMockAI |-> TRUE, apiKey |-> ""]
    /\ clock = 0
    /\ generations = <<>>
    /\ errorLogs = <<>>
    /\ inv = [i \in 1..1 |-> Idle]
    /\ WorkflowIdle

NextBackoff == \E att \in 1..MaxBackoffAttempt, rnd \in {0, 250, 500, 750, 999} : Backoff(att, rnd)

SpecBackoff == InitBackoff /\ [][NextBackoff]_vars

\* sendMessage calls with schemas, one after the other, on one instance
NextSchema == \E schema \in Schemas, body \in OkBodies : SendMessageWithSchema(schema, body)

SpecSchema == InitUnits /\ [][NextSchema]_vars

(***************************************************************************)
(* Properties of the retry loop                                            *)
(***************************************************************************)
IsHttp(e) == e.resp.kind = "http"
Is2xx(e) == IsHttp(e) /\ e.resp.status >= 200 /\ e.resp.status <= 299
Is5xx(e) == IsHttp(e) /\ e.resp.status >= 500
Is4xxNot429(e) == IsHttp(e) /\ e.resp.status >= 400 /\ e.resp.status <= 499 /\ e.resp.status # 429
Calls == Len(httpLog)

\* C1: a response with a 4xx status other than 429 is never retried: it is
\* the last HTTP call of the request, and the request fails with its error.
C1_ClientErrorNotRetried ==
    \A i \in 1..Calls :
        Is4xxNot429(httpLog[i]) =>
            /\ i = Calls
            /\ pc = "done"
            /\ requestOutcome.kind = "throw"
            /\ requestOutcome.err.status = httpLog[i].resp.status

\* the first k calls got a 5xx and call k+1 a 2xx, with k below the ceiling
FiveHundredsThenOk(k) ==
    /\ k + 1 <= Calls
    /\ k < retryConfig.attempts
    /\ \A i \in 1..k : Is5xx(httpLog[i])
    /\ Is2xx(httpLog[k + 1])

ReturnsCall(n) ==
    /\ Calls = n
    /\ pc = "done"
    /\ requestOutcome.kind = "return"
    /\ requestOutcome.body = httpLog[n].resp.body

\* C2 as stated: k 5xx answers and then any 2xx answer give exactly k+1 calls
\* and the 2xx response as the result.
C2_AnyOkEndsRetries ==
    \A k \in 0..MaxAttempts : FiveHundredsThenOk(k) => ReturnsCall(k + 1)

\* C2: while the calls so far all got a 5xx and are fewer than the ceiling
\* the request goes on, and k 5xx answers followed by a 2xx answer whose body
\* is JSON give exactly k+1 HTTP calls and that response as the result.
C2_RetriesUntilOk ==
    /\ ((\A i \in 1..Calls : Is5xx(httpLog[i])) /\ Calls < retryConfig.attempts /\ params.hasMessage
            /\ apiKeyCache.key # "") => pc \in {"fetch", "sleep"}
    /\ \A k \in 0..MaxAttempts :
          (FiveHundredsThenOk(k) /\ httpLog[k + 1].resp.body.parses) => ReturnsCall(k + 1)

C2_Witness ==
    /\ FiveHundredsThenOk(2)
    /\ httpLog[3].resp.body.parses
    /\ retryConfig.attempts = 3
    /\ pc = "done"

\* C3: _request issues at most retry.attempts HTTP calls, every step of the
\* loop brings it closer to its end, and when it fails after at least one
\* call the error it throws is the error of the last call made.
Remaining == IF pc = "fetch" THEN 2 * (retryConfig.attempts - attempt) + 2
             ELSE IF pc = "sleep" THEN 2 * (retryConfig.attempts - attempt) + 1
             ELSE 0
C3_CallsBounded ==
    /\ Calls <= retryConfig.attempts
    /\ Remaining >= 0
    /\ (pc = "done" /\ requestOutcome.kind = "throw" /\ Calls > 0) =>
           /\ requestOutcome.err.attempt = httpLog[Calls].attempt
           /\ requestOutcome.err = lastError
    /\ \A i \in 1..Calls : httpLog[i].attempt = i
C3_Progress == pc \in {"fetch", "sleep"} => Remaining' < Remaining
C3_BoundedAttempts == []C3_CallsBounded /\ [][C3_Progress]_vars

C3_Witness ==
    /\ pc = "done"
    /\ Calls = 3
    /\ retryConfig.attempts = 3
    /\ requestOutcome.kind = "throw"
    /\ requestOutcome.err.name = "TimeoutError"
    /\ httpLog[1].resp.status = 500

\* a 429 answer whose Retry-After value is a number of seconds
NumericRetryAfter(e) ==
    /\ IsHttp(e) /\ e.resp.status = 429
    /\ e.resp.retryAfter.present
    /\ ~ParseInt(e.resp.retryAfter.s).nan
\* a 429 answer with no Retry-After value
NoRetryAfter(e) ==
    /\ IsHttp(e) /\ e.resp.status = 429
    /\ (~e.resp.retryAfter.present \/ e.resp.retryAfter.s = <<>>)
AttemptsRemain(e) == e.attempt < retryConfig.attempts

\* C4: after a 429 with Retry-After N and attempts remaining the client
\* sleeps N seconds, and its next HTTP call starts no earlier than N seconds
\* after that response.
C4_RetryAfterHonoured ==
    \A i \in 1..Calls :
        (NumericRetryAfter(httpLog[i]) /\ AttemptsRemain(httpLog[i])) =>
            LET n == ParseInt(httpLog[i].resp.retryAfter.s).n
            IN  /\ \E j \in 1..Len(sleepLog) :
                      sleepLog[j].attempt = i /\ sleepLog[j].ms = Num(n * 1000)
                /\ pc # "done" \/ i < Calls
                /\ i < Calls => httpLog[i + 1].at >= httpLog[i].respAt + n * 1000

C4_Witness ==
    /\ Calls >= 2
    /\ NumericRetryAfter(httpLog[1])
    /\ ParseInt(httpLog[1].resp.retryAfter.s).n = 2
    /\ httpLog[2].at >= httpLog[1].respAt + 2000

\* C5: after a 429 without Retry-After and attempts remaining the client
\* sleeps the backoff delay of the current attempt before its next call.
C5_BackoffOn429 ==
    \A i \in 1..Calls :
        (NoRetryAfter(httpLog[i]) /\ AttemptsRemain(httpLog[i])) =>
            \E j \in 1..Len(sleepLog) :
                /\ sleepLog[j].attempt = i
                /\ sleepLog[j].ms = Num(CalculateBackoff(i, sleepLog[j].rnd, retryConfig))
                /\ i < Calls => httpLog[i + 1].at >= httpLog[i].respAt + sleepLog[j].ms.n

\* the call in progress ran into one of the failures of sendMessage
FailurePath ==
    \/ ~params.hasMessage
    \/ requestOutcome.kind = "throw"
    \/ /\ requestOutcome.kind = "return"
       /\ \/ requestOutcome.body.choices = <<>>
          \/ /\ params.responseFormat
             /\ \/ ~requestOutcome.body.choices[1].json
                \/ ~MatchesSchema(requestOutcome.body.choices[1].value)

\* C6: sendMessage never throws; every failure path ends in a returned
\* {success: false, error: {code, message}} and every other call in success.
C6_FailuresAreReturned ==
    pc = "done" =>
        /\ ~result.thrown
        /\ FailurePath => (~result.success /\ result.code \in {"bad_request", "unknown_error"} /\ result.message # "")
        /\ ~FailurePath => (result.success /\ result.code = "")

C6_Witness ==
    /\ pc = "done"
    /\ params.hasMessage /\ params.responseFormat
    /\ requestOutcome.kind = "return"
    /\ requestOutcome.body.choices # <<>>
    /\ requestOutcome.body.choices[1].json
    /\ ~MatchesSchema(requestOutcome.body.choices[1].value)
    /\ ~result.success


(***************************************************************************)
(* Properties of the generate endpoint                                     *)
(***************************************************************************)
Invocations == DOMAIN inv
AuditsBy(i) == Cardinality({k \in 1..Len(generations) : generations[k].inv = i})
ErrorsBy(i) == Cardinality({k \in 1..Len(errorLogs) : errorLogs[k].inv = i})
RecordsBy(i) == AuditsBy(i) + ErrorsBy(i)
\* the invocation passed validation, deck ownership and the rate limiter
Gated(i) == inv[i].pc \in {"generating", "done"} /\ inv[i].allowed
GatedCount == Cardinality({i \in Invocations : Gated(i)})
CreatedAudits == Cardinality({k \in 1..Len(generations) : generations[k].inv # 0})
CreatedRecords == CreatedAudits + Len(errorLogs)
Quiescent == \A i \in Invocations : inv[i].pc # "generating"

C8_AuditAndErrorExclusive ==
    \A i \in Invocations :
        /\ ~(AuditsBy(i) > 0 /\ ErrorsBy(i) > 0)
        /\ AuditsBy(i) > 0 => (inv[i].pc = "done" /\ inv[i].ai.ok)
        /\ ErrorsBy(i) > 0 => (inv[i].pc = "done" /\ ~inv[i].ai.ok)

C8_Witness ==
    \E i, j \in Invocations :
        /\ AuditsBy(i) = 1 /\ ErrorsBy(i) = 0
        /\ ErrorsBy(j) = 1 /\ AuditsBy(j) = 0

\* C9: when the generation succeeded and the insert of its audit record
\* failed, the caller still gets the suggestions.
C9_SuggestionsSurviveAuditFailure ==
    \A i \in Invocations :
        (inv[i].pc = "done" /\ inv[i].ai.ok /\ inv[i].store = "failed") =>
            /\ inv[i].response.status = 200
            /\ inv[i].response.suggestions = inv[i].ai.suggestions

Rejections == {"VALIDATION_ERROR", "DECK_NOT_FOUND", "FORBIDDEN", "RATE_LIMIT_EXCEEDED"}

\* C10: the provider or the offline substitute is called only when the body
\* is valid, the deck exists and belongs to the caller and the rate limiter
\* permitted the request; a rejected request makes no call and no record.
C10_ProviderOnlyAfterGates ==
    \A i \in Invocations :
        /\ inv[i].providerCalls > 0 =>
              /\ inv[i].req.body.parses
              /\ SafeParse(inv[i].req.body).success
              /\ inv[i].req.deckId \in DOMAIN DeckOwner
              /\ DeckOwner[inv[i].req.deckId] = inv[i].req.user
              /\ inv[i].rateLimitOk
        /\ inv[i].response.code \in Rejections =>
              /\ inv[i].providerCalls = 0
              /\ RecordsBy(i) = 0

C10_Witness ==
    \E i, j \in Invocations :
        /\ inv[i].response.code = "RATE_LIMIT_EXCEEDED"
        /\ inv[j].providerCalls = 1 /\ inv[j].pc = "done"

(***************************************************************************)
(* Validation, rate limiting and failures of the generate endpoint         *)
(***************************************************************************)
Started(i) == inv[i].pc # "idle"
Authenticated(i) == inv[i].req.user # "anon"
SourceLength(i) == TrimmedLength(inv[i].req.body.text)
TextOutOfRange(i) ==
    /\ Started(i) /\ inv[i].req.body.parses
    /\ (SourceLength(i) < MinSourceTextLength \/ SourceLength(i) > MaxSourceTextLength)

RECURSIVE OwnRecent(_, _, _)
OwnRecent(gens, userId, t) ==
    IF gens = <<>> THEN 0
    ELSE (IF Head(gens).user_id = userId /\ t - Head(gens).created_at <= WindowMs THEN 1 ELSE 0)
           + OwnRecent(Tail(gens), userId, t)

\* C12: when its count query works, checkGenerationRateLimit(userId, ceiling)
\* gives false exactly when the user has ceiling or more records created in
\* the trailing 60 minutes; other users' records and older ones do not count.
C12_FalseExactlyAtCeiling ==
    rateCheck.called /\ ~rateCheck.queryFails =>
        (rateCheck.result = FALSE <=> OwnRecent(generations, rateCheck.userId, clock) >= rateCheck.ceiling)

\* a user exactly at the ceiling was refused although the table also holds an
\* older record of theirs and records of somebody else
C12_Witness ==
    /\ rateCheck.called /\ ~rateCheck.queryFails /\ ~rateCheck.result
    /\ OwnRecent(generations, rateCheck.userId, clock) = rateCheck.ceiling
    /\ \E k \in 1..Len(generations) : generations[k].user_id # rateCheck.userId
    /\ \E k \in 1..Len(generations) :
          generations[k].user_id = rateCheck.userId /\ clock - generations[k].created_at > WindowMs

C14_AtMostTwoBeyond == RecentCount(generations, "u1", clock) <= LimitPerHour + 2

\* C14: an invocation is admitted only while the user has fewer records in
\* the window than the ceiling, and the records in the window exceed the
\* ceiling by less than the number of invocations admitted.
C14_Admitted == Cardinality({i \in Invocations : inv[i].providerCalls = 1})
C14_AdmittedBelowCeiling ==
    \A i \in Invocations :
        inv[i].pc = "idle" /\ inv'[i].pc = "generating" =>
            OwnRecent(generations, inv'[i].req.user, clock) < LimitPerHour
C14_RaceBoundedByConcurrency ==
    /\ [](RecentCount(generations, "u1", clock) < LimitPerHour + C14_Admitted)
    /\ [][C14_AdmittedBelowCeiling]_vars

\* every racer was admitted and has inserted its record: three beyond the ceiling
C14_Witness == RecentCount(generations, "u1", clock) > LimitPerHour + 2

\* C15 as stated: an invocation that passed every gate answers 200 with as
\* many suggestions as were asked for and an audit record of that count and a
\* duration of 0 or more, or it answers with a typed failure.
C15_CountSuggestionsOrFailure ==
    \A i \in Invocations :
        inv[i].pc = "done" /\ inv[i].rateLimitOk =>
            \/ /\ inv[i].response.status = 200
               /\ inv[i].response.suggestions = inv[i].data.count
               /\ \E k \in 1..Len(generations) :
                     /\ generations[k].inv = i
                     /\ generations[k].generated_count = inv[i].data.count
                     /\ generations[k].generation_duration >= 0
            \/ /\ inv[i].response.status \in {422, 500}
               /\ inv[i].response.code \in {"AI_GENERATION_FAILED", "INTERNAL_SERVER_ERROR"}

\* the reply of the live provider is JSON that the flashcards schema rejects
ReplyViolatesSchema(i) ==
    /\ inv[i].pc = "done" /\ inv[i].reply.kind = "return"
    /\ inv[i].reply.body.choices # <<>>
    /\ inv[i].reply.body.choices[1].json
    /\ ~MatchesSchema(inv[i].reply.body.choices[1].value)

\* C16: a reply whose JSON lacks the flashcards array, or breaks the schema
\* in another way, ends in the 422 AI_GENERATION_FAILED response and leaves no
\* audit record of the invocation.
C16_SchemaViolationFails ==
    \A i \in Invocations :
        ReplyViolatesSchema(i) =>
            /\ inv[i].response.status = 422 /\ inv[i].response.code = "AI_GENERATION_FAILED"
            /\ AuditsBy(i) = 0

\* a reply that is an object without flashcards has been answered 422
C16_Witness ==
    \E i \in Invocations :
        /\ ReplyViolatesSchema(i)
        /\ inv[i].reply.body.choices[1].value = JObject("absent", 0, FALSE)
        /\ inv[i].response.code = "AI_GENERATION_FAILED"

\* C17 as stated: a body that is not JSON is answered 400 VALIDATION_ERROR
\* like any other invalid input, and the provider is not called.
C17_MalformedBodyIsValidationError ==
    \A i \in Invocations :
        Started(i) /\ Authenticated(i) /\ ~inv[i].req.body.parses =>
            /\ inv[i].response.status = 400 /\ inv[i].response.code = "VALIDATION_ERROR"
            /\ inv[i].providerCalls = 0

\* C18 as stated: every error record names the user of the invocation that
\* failed and the model that invocation asked for.
C18_ErrorRecordNamesUserAndModel ==
    \A k \in 1..Len(errorLogs) :
        /\ errorLogs[k].user_id = inv[errorLogs[k].inv].req.user
        /\ errorLogs[k].model = inv[errorLogs[k].inv].data.model

(***************************************************************************)
(* The accept endpoint                                                     *)
(***************************************************************************)
AcceptCalls == 1..Len(accepts)
BatchOf(c) == accepts[c].req.body.flashcards
Created(c) == accepts[c].response.status = 201

\* C19: every flashcard an accept call creates is 'ai-edited' when its item
\* was flagged was_edited and 'ai-full' when it was not, with the front and
\* back of the item; no row that accept creates is 'manual'.
C19_ProvenanceFollowsWasEdited ==
    /\ \A c \in AcceptCalls :
          Created(c) =>
              /\ accepts[c].response.created_count = Len(BatchOf(c))
              /\ \A k \in 1..Len(BatchOf(c)) :
                    LET row == flashcards[accepts[c].first + k - 1]
                    IN  /\ row.source = "ai-edited" <=> BatchOf(c)[k].was_edited
                        /\ row.source = "ai-full" <=> ~BatchOf(c)[k].was_edited
                        /\ row.front = BatchOf(c)[k].front /\ row.back = BatchOf(c)[k].back
    /\ \A k \in 1..Len(flashcards) : flashcards[k].source # "manual"

\* a batch with an edited and an unedited item has been created
C19_Witness ==
    \E c \in AcceptCalls :
        /\ Created(c)
        /\ \E j, k \in 1..Len(BatchOf(c)) : BatchOf(c)[j].was_edited /\ ~BatchOf(c)[k].was_edited
        /\ \E k \in 1..Len(flashcards) : flashcards[k].source = "ai-edited"

SignedIn(c) == accepts[c].req.user # "anon" /\ accepts[c].req.body.parses
ItemsValid(c) ==
    \A k \in 1..Len(BatchOf(c)) :
        /\ BatchOf(c)[k].front.raw \in 1..MaxFrontLength
        /\ BatchOf(c)[k].back.raw \in 1..MaxBackLength

\* C20: a batch of no item or of more than 50 items is answered 400
\* VALIDATION_ERROR before the generation is looked up and before any insert;
\* a batch of 1 to 50 valid items passes validation, and is created when the
\* generation and the deck are the caller's and the insert works.
C20_BatchSizeValidatedFirst ==
    \A c \in AcceptCalls :
        SignedIn(c) =>
            /\ (Len(BatchOf(c)) = 0 \/ Len(BatchOf(c)) > 50) =>
                  /\ accepts[c].response.status = 400 /\ accepts[c].response.code = "VALIDATION_ERROR"
                  /\ accepts[c].lookups = 0 /\ accepts[c].inserts = 0
            /\ (Len(BatchOf(c)) \in 1..50 /\ ItemsValid(c)) =>
                  /\ accepts[c].lookups = 1
                  /\ accepts[c].inserts = 1 => accepts[c].response.status \in {201, 500}

\* a batch of 51 was turned down for a generation that does not exist, and a
\* batch of 50 was created
C20_Witness ==
    \E c, d \in AcceptCalls :
        /\ Len(BatchOf(c)) = 51 /\ accepts[c].req.generationId = 9
        /\ accepts[c].response.code = "VALIDATION_ERROR"
        /\ Len(BatchOf(d)) = 50 /\ Created(d) /\ accepts[d].response.created_count = 50

\* where the rows of the call after c begin
NextFirst(c) == IF c = Len(accepts) THEN Len(flashcards) + 1 ELSE accepts[c + 1].first
Caller(c) == accepts[c].req.user

\* C21: a call adds rows to flashcards only when it answers 201, and then
\* the generation exists and is the caller's, the deck exists and is the
\* caller's, and every row it adds has the caller's user id, the generation
\* id of the request and that deck; every other call leaves the table as it
\* was.
C21_InsertOnlyWhenOwned ==
    \A c \in AcceptCalls :
        /\ ~Created(c) => NextFirst(c) = accepts[c].first
        /\ Created(c) =>
              /\ NextFirst(c) = accepts[c].first + Len(BatchOf(c))
              /\ accepts[c].req.generationId \in 1..Len(generations)
              /\ generations[accepts[c].req.generationId].user_id = Caller(c)
              /\ accepts[c].deckId \in DOMAIN DeckOwner /\ DeckOwner[accepts[c].deckId] = Caller(c)
              /\ \A k \in accepts[c].first..(NextFirst(c) - 1) :
                    /\ flashcards[k].user_id = Caller(c)
                    /\ flashcards[k].generation_id = accepts[c].req.generationId
                    /\ flashcards[k].deck_id = accepts[c].deckId

\* a call for somebody else's generation was answered 403 and a later call
\* for the caller's own generation created its rows
C21_Witness ==
    \E c, d \in AcceptCalls :
        /\ c < d /\ accepts[c].response.status = 403 /\ accepts[c].req.generationId = 2
        /\ Created(d) /\ NextFirst(d) > accepts[d].first

\* the decks of the flashcards that were linked to the generation of call c
\* when the call was made
LinkedDecks(c) ==
    {flashcards[k].deck_id : k \in {j \in 1..(accepts[c].first - 1) :
                                       flashcards[j].generation_id = accepts[c].req.generationId}}
OwnDecks(c) == {d \in DOMAIN DeckOwner : DeckOwner[d] = Caller(c)}
ReachedDeckResolution(c) ==
    /\ SignedIn(c) /\ accepts[c].lookups = 1
    /\ accepts[c].response.code # "GENERATION_NOT_FOUND"
    /\ accepts[c].req.generationId \in 1..Len(generations)
    /\ generations[accepts[c].req.generationId].user_id = Caller(c)

C28_LinkedWithinGeneratedCount ==
    \A g \in 1..Len(generations) :
        Cardinality({k \in 1..Len(flashcards) : flashcards[k].generation_id = g}) <= generations[g].generated_count

(***************************************************************************)
(* Backoff schedule, usage counters and the rate limiter's frame           *)
(***************************************************************************)
\* the response that the fetch of attempt a received
ResponseOf(a) == (CHOOSE e \in {httpLog[k] : k \in 1..Len(httpLog)} : e.attempt = a).resp
\* the sleep with index j was driven by a Retry-After value
RetryAfterDriven(j) ==
    LET resp == ResponseOf(sleepLog[j].attempt)
    IN  resp.kind = "http" /\ resp.status = 429 /\ resp.retryAfter.present /\ resp.retryAfter.s # <<>>
RetryAfterSleepsBefore(j) == Cardinality({i \in 1..(j - 1) : RetryAfterDriven(i)})

\* C25 as stated: a backoff sleep lasts what the schedule gives for the
\* number of the attempt less the earlier retries that a Retry-After value
\* drove.
C25_RetryAfterOutsideSchedule ==
    \A j \in 1..Len(sleepLog) :
        ~RetryAfterDriven(j) =>
            sleepLog[j].ms = Num(CalculateBackoff(sleepLog[j].attempt - RetryAfterSleepsBefore(j),
                                                  sleepLog[j].rnd, retryConfig))

\* C26: a generation that fails and writes its error record leaves what
\* checkGenerationRateLimit gives for every user as it was, and the step
\* that makes the check writes to neither table.
C26_Frame ==
    /\ Len(errorLogs') > Len(errorLogs) =>
          /\ generations' = generations
          /\ \A u \in Users :
                CheckGenerationRateLimit(generations', u, clock', FALSE, LimitPerHour)
                    = CheckGenerationRateLimit(generations, u, clock, FALSE, LimitPerHour)
    /\ \A i \in Invocations :
          inv[i].pc = "idle" /\ inv'[i].pc # "idle" /\ inv'[i].dbCalls = 2 =>
              generations' = generations /\ errorLogs' = errorLogs
C26_ChecksCountAuditsOnly == [][C26_Frame]_vars

\* u1 has an error record and an invocation that was admitted with u1 one
\* record short of the ceiling
C26_Witness ==
    /\ \E k \in 1..Len(errorLogs) : errorLogs[k].user_id = "u1"
    /\ \E i \in Invocations :
          /\ inv[i].req.user = "u1" /\ inv[i].recentAtCheck = LimitPerHour - 1
          /\ inv[i].providerCalls = 1 /\ ErrorsBy(i) = 0

\* C30 as stated: once sendMessage has answered, the requests counted are
\* the successful plus the failed ones.
C30_CountersAddUp ==
    pc = "done" =>
        usageMetrics.totalRequests = usageMetrics.successfulRequests + usageMetrics.failedRequests

\* the user's records created from the instant a on, up to 60 minutes later
InWindowFrom(u, a) ==
    Cardinality({k \in 1..Len(generations) :
                    /\ generations[k].user_id = u
                    /\ generations[k].created_at >= a /\ generations[k].created_at <= a + WindowMs})

\* C27: while the invocations of a user do not overlap and the count query
\* works, no 60 minutes hold more than 10 of the user's audit records; it is
\* enough to look at the windows that begin with a record.
C27_SequentialWithinCeiling ==
    \A k \in 1..Len(generations) :
        InWindowFrom(generations[k].user_id, generations[k].created_at) <= 10

\* the window is full, one invocation inserted its record some time after
\* its check and a later one was refused
C27_Witness ==
    /\ \E k \in 1..Len(generations) : InWindowFrom("u1", generations[k].created_at) = 10
    /\ \E i, j \in Invocations :
          /\ i < j /\ AuditsBy(i) = 1
          /\ \E k \in 1..Len(generations) : generations[k].inv = i /\ generations[k].generation_duration > 0
          /\ inv[j].response.code = "RATE_LIMIT_EXCEEDED"


(***************************************************************************)
(* The review step, the backoff formula and the validator cache            *)
(***************************************************************************)
Differs(s) == s.front # s.originalFront \/ s.back # s.originalBack
SelectedSuggestions == SelectSeq(dialogSuggestions, LAMBDA s : s.isSelected)

\* C23: in the review step, after any sequence of edits, a suggestion's
\* edited flag is true exactly when its current front or back differs from
\* the generated front or back, and that flag is what handleSaveSelected
\* sends as was_edited; a field edited and then restored gives false.
C23_EditedIffDiffers ==
    /\ \A k \in 1..Len(dialogSuggestions) : dialogSuggestions[k].isEdited <=> Differs(dialogSuggestions[k])
    /\ Len(FlashcardsToSave(dialogSuggestions)) = Len(SelectedSuggestions)
    /\ \A j \in 1..Len(SelectedSuggestions) :
          /\ FlashcardsToSave(dialogSuggestions)[j].front = SelectedSuggestions[j].front
          /\ FlashcardsToSave(dialogSuggestions)[j].back = SelectedSuggestions[j].back
          /\ FlashcardsToSave(dialogSuggestions)[j].was_edited <=> Differs(SelectedSuggestions[j])

\* a selected suggestion whose back was edited and then restored is sent
\* with was_edited false, next to one that is sent edited
C23_Witness ==
    /\ Len(dialogSuggestions) = 2
    /\ dialogSuggestions[1].edits >= 2 /\ dialogSuggestions[1].isSelected
    /\ ~Differs(dialogSuggestions[1]) /\ ~dialogSuggestions[1].isEdited
    /\ dialogSuggestions[2].isSelected /\ dialogSuggestions[2].isEdited
    /\ dialogSuggestions[2].front = dialogSuggestions[2].originalFront

Nominal(att) == retryConfig.minTimeoutMs * Pow(retryConfig.factor, att - 1)

\* C24: every backoff delay computed for attempt n >= 1 is at most 30000 ms
\* and, when not capped, lies within base * factor^(n-1) plus or minus 25%.
C24_DelayCappedAndNearNominal ==
    lastBackoff.called =>
        /\ lastBackoff.ms <= MaxBackoffMs
        /\ (lastBackoff.ms < MaxBackoffMs =>
              /\ 4 * lastBackoff.ms >= 3 * Nominal(lastBackoff.attempt)
              /\ 4 * lastBackoff.ms <= 5 * Nominal(lastBackoff.attempt))

\* a jittered delay below the cap, for an attempt whose nominal delay has
\* grown by the factor twice
C24_Witness ==
    /\ lastBackoff.called /\ lastBackoff.attempt = 3
    /\ lastBackoff.ms < MaxBackoffMs
    /\ lastBackoff.ms > Nominal(3)
    /\ Nominal(3) = retryConfig.minTimeoutMs * retryConfig.factor * retryConfig.factor

\* C29: on one instance, every sendMessage call that asks for a schema
\* validates the reply against the schema supplied in that call, also when
\* an earlier call supplied a different schema under the same name.
C29_ValidatedAgainstSuppliedSchema ==
    (lastValidation.called /\ lastValidation.formatted) =>
        (lastValidation.ok <=> Validator(lastValidation.schema, lastValidation.value))

====
